---- MODULE Spec2Model ----
(***************************************************************************)
(* State machine of the conversation and document synchronisation          *)
(* controller of frontend/src/App.jsx (the App component), with the        *)
(* ChatInput and Switch collaborators that invoke it and the backend it    *)
(* talks to.                                                               *)
(*                                                                         *)
(* One action is one uninterrupted run of a handler: from its invocation   *)
(* to its first await, or from the settlement of an awaited request to the *)
(* next await or the handler's end.  React commits the state updates of a  *)
(* run and runs the effects they trigger (the two refreshKey effects)      *)
(* before the next event is dispatched, so an action includes them, and a  *)
(* handler invoked later closes over the state as the previous action left *)
(* it.  Values a handler reads before its await (isLoading, messages,      *)
(* isRagEnabled) are therefore read from the current state; what it does   *)
(* after the await uses only functional updaters.                          *)
(*                                                                         *)
(* JavaScript strings that the code takes apart (trim, split) are          *)
(* sequences of tokens; "" is <<>>.  Message and Date timestamps that are  *)
(* only displayed are left out of Message; Document.uploadedAt is kept.    *)
(***************************************************************************)
EXTENDS Integers, Sequences, FiniteSets, TLC

(***************************************************************************)
(* Bounds of the model.                                                    *)
(***************************************************************************)
\* user intents (sends, upload batches, deletes) accepted in one behaviour
MaxIntents == 2
\* files in one upload batch
MaxFiles == 2

(***************************************************************************)
(* Inputs.                                                                 *)
(***************************************************************************)
\* what the user can have typed: blank, or a word with blanks around it
Texts == { <<" ">>, <<" ", "a", " ">> }
\* the file handles the user can pick (by name)
Files == { <<"a", ".", "pdf">> }
FileLists == UNION { [1..n -> Files] : n \in 0..MaxFiles }

(***************************************************************************)
(* String helpers.                                                         *)
(***************************************************************************)
RECURSIVE TrimStart(_)
TrimStart(s) ==
    IF s # <<>> /\ Head(s) = " " THEN TrimStart(Tail(s)) ELSE s

RECURSIVE TrimEnd(_)
TrimEnd(s) ==
    IF s # <<>> /\ s[Len(s)] = " " THEN TrimEnd(SubSeq(s, 1, Len(s) - 1)) ELSE s

\* String.prototype.trim
Trim(s) == TrimEnd(TrimStart(s))

(***************************************************************************)
(* Program constants.  The strings are the source's, written without      *)
(* their accents; the welcome text is abbreviated.                         *)
(***************************************************************************)
INITIAL_ASSISTANT_MESSAGE ==
    [ id |-> <<"welcome">>, content |-> <<"Bonjour !">>, role |-> "assistant",
      intent |-> "System", usedDocuments |-> <<>> ]

StatusSendError == "Une erreur est survenue lors de l'appel au serveur."
FallbackContent == <<"Une erreur est survenue. Verifiez votre connexion a l'API.">>
DefaultContent == <<"Je n'ai pas pu formuler de reponse.">>
StatusUploadFailed == "Impossible de televerser un des fichiers."
StatusUploadDone == "Televersement termine et documents ingeres."
StatusDeleted == "Document supprime."
StatusDeleteFailed == "Impossible de supprimer le document."

(***************************************************************************)
(* Pure functions of App.jsx.                                              *)
(***************************************************************************)
\* createMessageId: `${prefix}-${Date.now()}-${random}`; k is the number of
\* ids produced before it, which stands for the time and the random part.
createMessageId(prefix, k) == << prefix, ToString(k) >>

\* name.includes('.') ? name.split('.').pop() : '' ; "." is a token of its own
RECURSIVE AfterLastDot(_)
AfterLastDot(name) ==
    IF name = <<>> \/ name[Len(name)] = "." THEN <<>>
    ELSE AfterLastDot(SubSeq(name, 1, Len(name) - 1)) \o << name[Len(name)] >>

Extension(name) ==
    IF \E i \in 1..Len(name) : name[i] = "." THEN AfterLastDot(name) ELSE <<>>

\* The argument of normaliseDocument, by the fields it reads: nul is a null
\* (falsy) entry; a numeric id is <<n>> in id, a string id is in idText, and
\* both are <<>> when the field is absent; an absent string is <<>>, an
\* absent size or uploaded_at is 0 (the code treats them alike).
RawDoc(id, name, file, size, type, at) ==
    [ nul |-> FALSE, id |-> id, idText |-> <<>>, original_name |-> name,
      file |-> file, size |-> size, type |-> type, uploaded_at |-> at ]

NullDoc == [ RawDoc(<<>>, <<>>, <<>>, 0, <<>>, 0) EXCEPT !.nul = TRUE ]

\* an entry that is truthy but no record (7, "x", []): every field
\* normaliseDocument reads from it is undefined
ScalarDoc == RawDoc(<<>>, <<>>, <<>>, 0, <<>>, 0)

\* a Document handed to normaliseDocument: it has id, size and type, and
\* none of original_name, file and uploaded_at
DocAsRecord(doc) ==
    [ RawDoc(<<>>, <<>>, <<>>, doc.size, doc.type, 0) EXCEPT !.idText = doc.id ]

\* whether normaliseDocument calls createMessageId for this record
NeedsId(apiDocument) ==
    ~apiDocument.nul /\ apiDocument.id = <<>> /\ apiDocument.idText = <<>>

\* normaliseDocument: <<>> for null, else << the Document >>.  k is the id
\* counter and now the value of new Date().
normaliseDocument(apiDocument, k, now) ==
    IF apiDocument.nul THEN <<>>
    ELSE
      LET name == IF apiDocument.original_name # <<>> THEN apiDocument.original_name
                  ELSE IF apiDocument.file # <<>> THEN apiDocument.file
                  ELSE <<"Document">>
      IN << [ id |-> IF apiDocument.idText # <<>> THEN apiDocument.idText
                     ELSE IF apiDocument.id = <<>> THEN createMessageId("doc", k)
                     ELSE << ToString(apiDocument.id[1]) >>,
              name |-> name,
              size |-> apiDocument.size,
              type |-> IF apiDocument.type # <<>> THEN apiDocument.type
                       ELSE Extension(name),
              uploadedAt |-> IF apiDocument.uploaded_at # 0
                             THEN apiDocument.uploaded_at ELSE now,
              path |-> apiDocument.file ] >>

\* results.map(normaliseDocument).filter(Boolean), with the id counter
RECURSIVE MapNormalise(_, _, _)
MapNormalise(results, k, now) ==
    IF results = <<>> THEN [ docs |-> <<>>, k |-> k ]
    ELSE LET h == Head(results)
             rest == MapNormalise(Tail(results),
                                  IF NeedsId(h) THEN k + 1 ELSE k, now)
         IN [ docs |-> normaliseDocument(h, k, now) \o rest.docs, k |-> rest.k ]

\* the comparator of the load: (a, b) => b.uploadedAt - a.uploadedAt;
\* TRUE when a may stay before b
KeepsOrder(a, b) == b.uploadedAt - a.uploadedAt <= 0

\* Array.prototype.sort (stable): insert d, which came after all of sorted
RECURSIVE InsertSorted(_, _)
InsertSorted(sorted, d) ==
    IF sorted = <<>> THEN << d >>
    ELSE IF KeepsOrder(sorted[Len(sorted)], d) THEN Append(sorted, d)
    ELSE Append(InsertSorted(SubSeq(sorted, 1, Len(sorted) - 1), d),
                sorted[Len(sorted)])

SortDocsUnsorted(docs) == docs
RECURSIVE SortDocs(_)
SortDocs(docs) ==
    IF docs = <<>> THEN <<>>
    ELSE InsertSorted(SortDocs(SubSeq(docs, 1, Len(docs) - 1)), docs[Len(docs)])

\* buildHistoryPayload
RECURSIVE buildHistoryPayload(_)
buildHistoryPayload(historyMessages) ==
    IF historyMessages = <<>> THEN <<>>
    ELSE LET entry == Head(historyMessages)
         IN (IF entry.role = "user" \/ entry.role = "assistant"
             THEN << [ role |-> entry.role, content |-> entry.content ] >>
             ELSE <<>>) \o buildHistoryPayload(Tail(historyMessages))

\* previous.filter((doc) => doc.id !== id)
RECURSIVE FilterOut(_, _)
FilterOut(previous, id) ==
    IF previous = <<>> THEN <<>>
    ELSE (IF Head(previous).id # id THEN << Head(previous) >> ELSE <<>>)
         \o FilterOut(Tail(previous), id)


VARIABLES
    messages,       \* useState: the transcript, a sequence of Message
    documents,      \* useState: the registry, a sequence of Document
    isRagEnabled,   \* useState: the mode flag
    isLoading,      \* useState: the busy flag
    refreshKey,     \* useState: the refresh epoch
    statusMessage,  \* useState: last operation outcome
    chats,          \* outstanding POST /chat/ requests
    fetches,        \* outstanding GET /documents/ requests
    batches,        \* running handleUploadDocuments invocations
    uploads,        \* outstanding POST /documents/ requests
    deletes,        \* outstanding DELETE /documents/{id}/ requests
    server,         \* the backend's document collection (raw records)
    clock,          \* time: the backend's ingest counter, read by new Date()
    nextId,         \* number of ids createMessageId has produced
    intents         \* number of intents accepted so far

vars == << messages, documents, isRagEnabled, isLoading, refreshKey,
           statusMessage, chats, fetches, batches, uploads, deletes, server,
           clock, nextId, intents >>

(***************************************************************************)
(* The backend (an external collaborator, by its network contract).        *)
(***************************************************************************)
Pending == [ status |-> "pending" ]

\* the record the backend stores for an ingested file
Ingested(file, n) ==
    RawDoc(<< n >>, file, <<"documents/">> \o file, Len(file), <<>>, n)

\* String(id) of a stored record, as the DELETE url names it
ServerIdOf(raw) == << ToString(raw.id[1]) >>

\* the collection the backend holds when the controller mounts
InitialServer == << Ingested(<<"old", ".", "txt">>, 1) >>

\* bodies of a 200 chat response
ChatBodies ==
    { [ response |-> <<"r">>, usedIsArray |-> TRUE, used_documents |-> <<"a.pdf">>,
        intent |-> "RAG" ],
      [ response |-> <<>>, usedIsArray |-> FALSE, used_documents |-> <<>>,
        intent |-> "" ] }

\* how a chat request can settle
ChatOutcomes ==
    { [ status |-> "ok", data |-> b ] : b \in ChatBodies }
    \cup { [ status |-> "bad" ], [ status |-> "neterr" ] }

(***************************************************************************)
(* Conversation manager: handleSendMessage.                                *)
(***************************************************************************)
\* the guard of handleSendMessage, negated
SendAcceptedWhileLoading(trimmed) == ~(trimmed = <<>>)
SendAcceptedBlank(trimmed) == ~isLoading
SendAccepted(trimmed) == ~(trimmed = <<>> \/ isLoading)

UserMessage(trimmed, k) ==
    [ id |-> createMessageId("user", k), content |-> trimmed, role |-> "user",
      intent |-> "User", usedDocuments |-> <<>> ]

\* the request of one send; user, lenBefore and epoch are observations: the
\* optimistic entry's id, the transcript's length and the epoch at the send
ChatRequestAlwaysDirect(trimmed, userMessage) ==
    [ message |-> trimmed,
      mode |-> "direct",
      history |-> buildHistoryPayload(Append(messages, userMessage)),
      user |-> userMessage.id, lenBefore |-> Len(messages), epoch |-> refreshKey ]
ChatRequestClosureHistory(trimmed, userMessage) ==
    [ message |-> trimmed,
      mode |-> IF isRagEnabled THEN "rag" ELSE "direct",
      history |-> buildHistoryPayload(messages),
      user |-> userMessage.id, lenBefore |-> Len(messages), epoch |-> refreshKey ]
ChatRequest(trimmed, userMessage) ==
    [ message |-> trimmed,
      mode |-> IF isRagEnabled THEN "rag" ELSE "direct",
      history |-> buildHistoryPayload(Append(messages, userMessage)),
      user |-> userMessage.id, lenBefore |-> Len(messages), epoch |-> refreshKey ]

\* handleSendMessage up to its await
handleSendMessage(content) ==
    LET trimmed == Trim(content)
        userMessage == UserMessage(trimmed, nextId)
    IN IF SendAccepted(trimmed)
       THEN /\ intents < MaxIntents
            /\ messages' = Append(messages, userMessage)
            /\ isLoading' = TRUE
            /\ statusMessage' = ""
            /\ chats' = chats \cup { ChatRequest(trimmed, userMessage) }
            /\ nextId' = nextId + 1
            /\ intents' = intents + 1
            /\ UNCHANGED << documents, isRagEnabled, refreshKey, fetches,
                            batches, uploads, deletes, server, clock >>
       ELSE UNCHANGED << messages, documents, isRagEnabled, isLoading,
                            refreshKey, statusMessage, chats, fetches, batches,
                            uploads, deletes, server, clock, nextId, intents >>

AssistantMessage(data, k) ==
    [ id |-> createMessageId("assistant", k),
      content |-> IF data.response # <<>> THEN data.response ELSE DefaultContent,
      role |-> "assistant",
      intent |-> IF data.intent # "" THEN data.intent ELSE "Direct",
      usedDocuments |-> IF data.usedIsArray THEN data.used_documents ELSE <<>> ]

FallbackMessage(k) ==
    [ id |-> createMessageId("assistant-error", k), content |-> FallbackContent,
      role |-> "assistant", intent |-> "Error", usedDocuments |-> <<>> ]

\* the entry a settlement appends
ReplyMessage(outcome, k) ==
    IF outcome.status = "ok" THEN AssistantMessage(outcome.data, k)
    ELSE FallbackMessage(k)

\* statusMessage after a settlement
StatusAfterReply(outcome) ==
    IF outcome.status = "ok" THEN statusMessage ELSE StatusSendError

\* the finally block: the flag after a settlement, whatever the outcome
LoadingAfterReplyNoFinally(outcome) == outcome.status # "ok"
LoadingAfterReplyOnlyCaught(outcome) == outcome.status = "ok"
LoadingAfterReply(outcome) == FALSE

\* the transcript after a settlement: setMessages((previous) => [...])
TranscriptAfterReplySilent(outcome, k) ==
    IF outcome.status = "ok" THEN Append(messages, ReplyMessage(outcome, k))
    ELSE messages
TranscriptAfterReplyRollback(outcome, k) ==
    IF outcome.status = "ok" THEN Append(messages, ReplyMessage(outcome, k))
    ELSE Append(SubSeq(messages, 1, Len(messages) - 1), ReplyMessage(outcome, k))
TranscriptAfterReplyPrepended(outcome, k) ==
    << ReplyMessage(outcome, k) >> \o messages
TranscriptAfterReply(outcome, k) == Append(messages, ReplyMessage(outcome, k))

ChatSettleClearsRegistry(c, outcome) ==
    /\ c \in chats
    /\ messages' = TranscriptAfterReply(outcome, nextId)
    /\ statusMessage' = StatusAfterReply(outcome)
    /\ isLoading' = LoadingAfterReply(outcome)
    /\ chats' = chats \ { c }
    /\ nextId' = nextId + 1
    /\ documents' = IF outcome.status = "ok" THEN documents ELSE <<>>
    /\ UNCHANGED << isRagEnabled, refreshKey, fetches, batches,
                    uploads, deletes, server, clock, intents >>
\* handleSendMessage after its await: try, catch and finally
ChatSettle(c, outcome) ==
    /\ c \in chats
    /\ messages' = TranscriptAfterReply(outcome, nextId)
    /\ statusMessage' = StatusAfterReply(outcome)
    /\ isLoading' = LoadingAfterReply(outcome)
    /\ chats' = chats \ { c }
    /\ nextId' = nextId + 1
    /\ UNCHANGED << documents, isRagEnabled, refreshKey, fetches, batches,
                    uploads, deletes, server, clock, intents >>

(***************************************************************************)
(* Mode flag: Switch.handleClick with onCheckedChange = setIsRagEnabled.   *)
(***************************************************************************)
ToggleRag ==
    /\ isRagEnabled' = ~isRagEnabled
    /\ UNCHANGED << messages, documents, isLoading, refreshKey, statusMessage,
                    chats, fetches, batches, uploads, deletes, server, clock,
                    nextId, intents >>

(***************************************************************************)
(* Document registry: fetchDocuments and the refreshKey effects.           *)
(***************************************************************************)
\* fetchDocuments up to its await; epoch (an observation) is the refreshKey
\* of the render whose effect issued it
FetchRequest(epoch) == [ epoch |-> epoch, resp |-> Pending ]

\* the backend answers a list request from its collection of that moment
ServerList(f) ==
    /\ f \in fetches /\ f.resp = Pending
    /\ fetches' = (fetches \ { f }) \cup
          { [ f EXCEPT !.resp = [ status |-> "answered", coll |-> server ] ] }
    /\ UNCHANGED << messages, documents, isRagEnabled, isLoading, refreshKey,
                    statusMessage, chats, batches, uploads, deletes, server,
                    clock, nextId, intents >>

\* the forms in which a list request can settle: a 200 with the results
\* envelope, with a bare array, with an array holding a null entry or an
\* entry that is no record, with a body that is neither; a non-2xx status;
\* a rejected fetch or json()
ListForms ==
    { "envelope", "array", "withNull", "withScalar", "other", "bad", "neterr" }

\* the forms that carry the backend's answer
ListFormsOk == { "envelope", "array", "withNull", "withScalar" }

\* the entries such a form adds in front of the backend's records
MalformedOf(form) ==
    IF form = "withNull" THEN << NullDoc >>
    ELSE IF form = "withScalar" THEN << ScalarDoc >>
    ELSE <<>>

\* response.ok, and the body response.json() yields
ListResponse(f, form) ==
    [ ok |-> form \notin { "bad", "neterr" },
      kind |-> IF form = "envelope" THEN "envelope"
               ELSE IF form \in ListFormsOk THEN "array" ELSE "other",
      items |-> IF form \in ListFormsOk THEN MalformedOf(form) \o f.resp.coll
                ELSE <<>> ]

\* line 61: Array.isArray(data?.results) ? data.results : data, and line 62
ResultsIsArray(data) == data.kind = "envelope" \/ data.kind = "array"

\* the value fetchDocuments stores for a response, with the id counter
LoadedKeepsOnFailure(response, k, now) ==
    IF response.ok /\ ResultsIsArray(response)
    THEN LET parsed == MapNormalise(response.items, k, now)
         IN [ docs |-> SortDocs(parsed.docs), k |-> parsed.k ]
    ELSE [ docs |-> documents, k |-> k ]
Loaded(response, k, now) ==
    IF response.ok /\ ResultsIsArray(response)
    THEN LET parsed == MapNormalise(response.items, k, now)
         IN [ docs |-> SortDocs(parsed.docs), k |-> parsed.k ]
    ELSE [ docs |-> <<>>, k |-> k ]

\* fetchDocuments after its await
FetchSettle(f, form) ==
    /\ f \in fetches
    /\ form \in ListForms
    /\ form \in ListFormsOk => f.resp # Pending
    /\ LET loaded == Loaded(ListResponse(f, form), nextId, clock)
       IN /\ documents' = loaded.docs
          /\ nextId' = loaded.k
    /\ fetches' = fetches \ { f }
    /\ UNCHANGED << messages, isRagEnabled, isLoading, refreshKey, statusMessage,
                    chats, batches, uploads, deletes, server, clock, intents >>

\* the effect of lines 81-83, run when refreshKey changes
MessagesAfterRefresh == << INITIAL_ASSISTANT_MESSAGE >>

\* the mode flag when refreshKey changes: no effect writes it
RagAfterRefresh == isRagEnabled

(***************************************************************************)
(* Document registry: handleUploadDocuments.                               *)
(***************************************************************************)
UploadRequest(bid, files, idx) ==
    [ bid |-> bid, idx |-> idx, file |-> files[idx], resp |-> Pending ]

\* the requests the handler issues when it is invoked: the first file's
FirstUploads(bid, fileList) == { UploadRequest(bid, fileList, 1) }

\* handleUploadDocuments up to its first await
handleUploadDocuments(fileList) ==
    IF Len(fileList) = 0
    THEN UNCHANGED << messages, documents, isRagEnabled, isLoading,
                         refreshKey, statusMessage, chats, fetches, batches,
                         uploads, deletes, server, clock, nextId, intents >>
    ELSE /\ intents < MaxIntents
         /\ batches' = batches \cup
                { [ bid |-> intents, files |-> fileList, uploaded |-> <<>> ] }
         /\ uploads' = uploads \cup FirstUploads(intents, fileList)
         /\ intents' = intents + 1
         /\ UNCHANGED << messages, documents, isRagEnabled, isLoading,
                         refreshKey, statusMessage, chats, fetches, deletes,
                         server, clock, nextId >>

\* the backend ingests the file of an upload request
ServerIngest(u) ==
    /\ u \in uploads /\ u.resp = Pending
    /\ clock' = clock + 1
    /\ server' = Append(server, Ingested(u.file, clock + 1))
    /\ uploads' = (uploads \ { u }) \cup
          { [ u EXCEPT !.resp = [ status |-> "ingested",
                                  data |-> Ingested(u.file, clock + 1) ] ] }
    /\ UNCHANGED << messages, documents, isRagEnabled, isLoading, refreshKey,
                    statusMessage, chats, fetches, batches, deletes, nextId,
                    intents >>

\* how an upload request can settle: 2xx with the stored record, a non-2xx
\* status, a rejected fetch or json()
UploadOutcomes == { "ok", "bad", "neterr" }

\* the loop body after the await: uploaded after this file's response
UploadedAfter(b, u, outcome, k, now) ==
    IF outcome = "ok"
    THEN b.uploaded \o normaliseDocument(u.resp.data, k, now)
    ELSE b.uploaded

\* the request the loop issues after this response, if it goes on
NextUploadsNoBreak(b, u, outcome) ==
    IF u.idx < Len(b.files)
    THEN { UploadRequest(b.bid, b.files, u.idx + 1) }
    ELSE {}
NextUploads(b, u, outcome) ==
    IF outcome = "ok" /\ u.idx < Len(b.files)
    THEN { UploadRequest(b.bid, b.files, u.idx + 1) }
    ELSE {}

\* statusMessage when the handler ends: the catch block's message, then the
\* commit's
StatusAfterBatchAlwaysDone(uploaded, outcome) == StatusUploadDone
StatusAfterBatch(uploaded, outcome) ==
    IF Len(uploaded) > 0 THEN StatusUploadDone
    ELSE IF outcome # "ok" THEN StatusUploadFailed
    ELSE statusMessage

\* the registry when the handler ends
DocumentsAfterBatchAppended(uploaded) ==
    IF Len(uploaded) > 0 THEN documents \o uploaded ELSE documents
DocumentsAfterBatch(uploaded) ==
    IF Len(uploaded) > 0 THEN uploaded \o documents ELSE documents

\* handleUploadDocuments after an await: the rest of the loop body, then
\* either the next request or the commit with the effects it triggers
UploadSettle(b, u, outcome) ==
    /\ b \in batches /\ u \in uploads /\ u.bid = b.bid
    /\ outcome \in UploadOutcomes
    /\ outcome = "ok" => u.resp # Pending
    /\ LET uploaded == UploadedAfter(b, u, outcome, nextId, clock)
       IN /\ nextId' = IF outcome = "ok" /\ NeedsId(u.resp.data)
                       THEN nextId + 1 ELSE nextId
          /\ IF NextUploads(b, u, outcome) # {}
             THEN /\ batches' = (batches \ { b }) \cup
                                   { [ b EXCEPT !.uploaded = uploaded ] }
                  /\ uploads' = (uploads \ { u }) \cup NextUploads(b, u, outcome)
                  /\ UNCHANGED << messages, documents, isRagEnabled, refreshKey,
                                  statusMessage, fetches >>
             ELSE /\ batches' = batches \ { b }
                  /\ uploads' = uploads \ { u }
                  /\ documents' = DocumentsAfterBatch(uploaded)
                  /\ statusMessage' = StatusAfterBatch(uploaded, outcome)
                  /\ IF Len(uploaded) > 0
                     THEN /\ refreshKey' = refreshKey + 1
                          /\ messages' = MessagesAfterRefresh
                          /\ isRagEnabled' = RagAfterRefresh
                          /\ fetches' = fetches \cup { FetchRequest(refreshKey + 1) }
                     ELSE UNCHANGED << refreshKey, messages, isRagEnabled, fetches >>
    /\ UNCHANGED << isLoading, chats, deletes, server, clock, intents >>

(***************************************************************************)
(* Document registry: handleDeleteDocument.                                *)
(***************************************************************************)
\* the ids a delete can be asked for: a card's, or none
DeleteIds == { documents[i].id : i \in 1..Len(documents) } \cup { <<>> }

\* handleDeleteDocument up to its await
handleDeleteDocument(id) ==
    IF id = <<>>
    THEN UNCHANGED << messages, documents, isRagEnabled, isLoading,
                         refreshKey, statusMessage, chats, fetches, batches,
                         uploads, deletes, server, clock, nextId, intents >>
    ELSE /\ intents < MaxIntents
         /\ deletes' = deletes \cup { [ did |-> intents, id |-> id, resp |-> Pending ] }
         /\ intents' = intents + 1
         /\ UNCHANGED << messages, documents, isRagEnabled, isLoading,
                         refreshKey, statusMessage, chats, fetches, batches,
                         uploads, server, clock, nextId >>

\* the backend's collection without the records of that id
RECURSIVE ServerWithout(_, _)
ServerWithout(coll, id) ==
    IF coll = <<>> THEN <<>>
    ELSE (IF ServerIdOf(Head(coll)) # id THEN << Head(coll) >> ELSE <<>>)
         \o ServerWithout(Tail(coll), id)

\* the backend handles a delete request: removes the record if it holds it
ServerDelete(d) ==
    /\ d \in deletes /\ d.resp = Pending
    /\ server' = ServerWithout(server, d.id)
    /\ deletes' = (deletes \ { d }) \cup
          { [ d EXCEPT !.resp = [ status |-> "handled",
                                  removed |-> ServerWithout(server, d.id) # server ] ] }
    /\ UNCHANGED << messages, documents, isRagEnabled, isLoading, refreshKey,
                    statusMessage, chats, fetches, batches, uploads, clock,
                    nextId, intents >>

\* how a delete request can settle: response.ok and response.status, or a
\* rejected fetch (status 0)
DeleteOutcomes ==
    { [ ok |-> TRUE, status |-> 204 ], [ ok |-> TRUE, status |-> 200 ],
      [ ok |-> FALSE, status |-> 404 ], [ ok |-> FALSE, status |-> 500 ],
      [ ok |-> FALSE, status |-> 0 ] }

\* the outcomes the backend's handling allows: 2xx when it removed the
\* record, 404 when it held none, a failure at any time
DeleteOutcomeOf(d, outcome) ==
    /\ outcome \in DeleteOutcomes
    /\ outcome.ok => d.resp # Pending /\ d.resp.removed
    /\ outcome.status = 404 => d.resp # Pending /\ ~d.resp.removed

\* the test of line 208, negated: the request counts as a success
DeleteSucceededOnly204(response) == response.status = 204
DeleteSucceededAlways(response) == TRUE
DeleteSucceeded(response) ==
    response.status # 0 /\ ~(~response.ok /\ response.status # 204)

\* handleDeleteDocument after its await
DeleteSettle(d, outcome) ==
    /\ d \in deletes
    /\ DeleteOutcomeOf(d, outcome)
    /\ IF DeleteSucceeded(outcome)
       THEN /\ documents' = FilterOut(documents, d.id)
            /\ statusMessage' = StatusDeleted
       ELSE /\ statusMessage' = StatusDeleteFailed
            /\ UNCHANGED documents
    /\ deletes' = deletes \ { d }
    /\ UNCHANGED << messages, isRagEnabled, isLoading, refreshKey, chats,
                    fetches, batches, uploads, server, clock, nextId, intents >>

(***************************************************************************)
(* The controller after mount: the initial state values of useState and    *)
(* the two effects of the first render (the welcome transcript, the first  *)
(* document load).                                                         *)
(***************************************************************************)
Init ==
    /\ messages = << INITIAL_ASSISTANT_MESSAGE >>
    /\ documents = <<>>
    /\ isRagEnabled = FALSE
    /\ isLoading = FALSE
    /\ refreshKey = 0
    /\ statusMessage = ""
    /\ chats = {}
    /\ fetches = { FetchRequest(0) }
    /\ batches = {}
    /\ uploads = {}
    /\ deletes = {}
    /\ server = InitialServer
    /\ clock = Len(server)
    /\ nextId = 0
    /\ intents = 0

Next ==
    \/ \E content \in Texts : handleSendMessage(content)
    \/ \E c \in chats, outcome \in ChatOutcomes : ChatSettle(c, outcome)
    \/ ToggleRag
    \/ \E f \in fetches : ServerList(f)
    \/ \E f \in fetches, form \in ListForms : FetchSettle(f, form)
    \/ \E fileList \in FileLists : handleUploadDocuments(fileList)
    \/ \E u \in uploads : ServerIngest(u)
    \/ \E b \in batches, u \in uploads, outcome \in UploadOutcomes :
          UploadSettle(b, u, outcome)
    \/ \E id \in DeleteIds : handleDeleteDocument(id)
    \/ \E d \in deletes : ServerDelete(d)
    \/ \E d \in deletes, outcome \in DeleteOutcomes : DeleteSettle(d, outcome)

Spec == Init /\ [][Next]_vars

\* the fairness the event loop gives: the continuation of a settled chat
\* request runs
FairSpec ==
    Spec /\ WF_vars(\E c \in chats, outcome \in ChatOutcomes : ChatSettle(c, outcome))

\* the steps in which the backend handles a request or a handler takes a
\* successful response
SuccessfulResponse ==
    \/ \E c \in chats, outcome \in ChatOutcomes :
          outcome.status = "ok" /\ ChatSettle(c, outcome)
    \/ \E f \in fetches : ServerList(f)
    \/ \E f \in fetches, form \in { "envelope", "array" } : FetchSettle(f, form)
    \/ \E u \in uploads : ServerIngest(u)
    \/ \E b \in batches, u \in uploads : UploadSettle(b, u, "ok")
    \/ \E d \in deletes : ServerDelete(d)
    \/ \E d \in deletes, outcome \in DeleteOutcomes :
          outcome.ok /\ DeleteSettle(d, outcome)

\* the controller when no request fails
NextSuccess ==
    \/ \E content \in Texts : handleSendMessage(content)
    \/ ToggleRag
    \/ \E fileList \in FileLists : handleUploadDocuments(fileList)
    \/ \E id \in DeleteIds : handleDeleteDocument(id)
    \/ SuccessfulResponse

\* the backend handles every request, and the continuation of a chat, upload
\* or delete response runs; the user may stop at any point, and the delivery
\* of a list response is demanded by the properties that need it
SuccessSpec ==
    /\ Init /\ [][NextSuccess]_vars
    /\ WF_vars(\E f \in fetches : ServerList(f))
    /\ WF_vars(\E u \in uploads : ServerIngest(u))
    /\ WF_vars(\E d \in deletes : ServerDelete(d))
    /\ WF_vars(\E c \in chats, outcome \in ChatOutcomes :
                  outcome.status = "ok" /\ ChatSettle(c, outcome))
    /\ WF_vars(\E b \in batches, u \in uploads : UploadSettle(b, u, "ok"))
    /\ WF_vars(\E d \in deletes, outcome \in DeleteOutcomes :
                  outcome.ok /\ DeleteSettle(d, outcome))

(***************************************************************************)
(* Properties.                                                             *)
(***************************************************************************)
\* an entry with that id is in the transcript
InTranscript(transcript, id) ==
    \E i \in 1..Len(transcript) : transcript[i].id = id

\* C1 as stated: an accepted send appends exactly one user entry, its
\* settlement appends exactly one assistant entry, and the transcript is
\* then 2 entries longer than before the send, whatever document
\* operations ran in between.
C1_TwoLongerAlways ==
    [][ /\ \A t \in Texts :
              SendAccepted(Trim(t)) /\ handleSendMessage(t)
              => /\ Len(messages') = Len(messages) + 1
                 /\ SubSeq(messages', 1, Len(messages)) = messages
                 /\ messages'[Len(messages')].role = "user"
                 /\ messages'[Len(messages')].content = Trim(t)
        /\ \A c \in chats, o \in ChatOutcomes :
              ChatSettle(c, o)
              => /\ Len(messages') = Len(messages) + 1
                 /\ SubSeq(messages', 1, Len(messages)) = messages
                 /\ messages'[Len(messages')].role = "assistant"
                 /\ Len(messages') = c.lenBefore + 2 ]_vars

\* C1 amended: the same, the transcript being 2 entries longer than before
\* the send when the refresh epoch did not change while the request was
\* outstanding.
C1_TwoLongerWithinEpoch ==
    [][ /\ \A t \in Texts :
              SendAccepted(Trim(t)) /\ handleSendMessage(t)
              => /\ Len(messages') = Len(messages) + 1
                 /\ SubSeq(messages', 1, Len(messages)) = messages
                 /\ messages'[Len(messages')].role = "user"
                 /\ messages'[Len(messages')].content = Trim(t)
        /\ \A c \in chats, o \in ChatOutcomes :
              ChatSettle(c, o)
              => /\ Len(messages') = Len(messages) + 1
                 /\ SubSeq(messages', 1, Len(messages)) = messages
                 /\ messages'[Len(messages')].role = "assistant"
                 /\ c.epoch = refreshKey => Len(messages') = c.lenBefore + 2 ]_vars

\* a send has completed with a failure while an upload batch was running
C1_Witness ==
    /\ chats = {} /\ batches # {} /\ refreshKey = 0
    /\ Len(messages) = 3
    /\ messages[2].role = "user" /\ messages[3].intent = "Error"

C3_RejectedSendIsNoOp ==
    [][ \A t \in Texts :
           (isLoading \/ Trim(t) = <<>>) /\ handleSendMessage(t)
           => UNCHANGED << messages, isLoading, statusMessage, documents,
                           refreshKey, chats >> ]_vars

\* a send is outstanding: every text is rejected here, and the blank ones
\* are rejected in any state
C3_Witness ==
    /\ isLoading /\ chats # {}
    /\ \E t \in Texts : Trim(t) # <<>> /\ ~SendAccepted(Trim(t))
    /\ \E t \in Texts : t # <<>> /\ Trim(t) = <<>> /\ ~SendAccepted(Trim(t))

\* C4: an accepted send sets isLoading before its request is out, and once
\* the request settles, with a reply, a non-success status or a failure,
\* isLoading becomes false again.
C4_LoadingSetThenReset ==
    /\ [][ \A t \in Texts :
              SendAccepted(Trim(t)) /\ handleSendMessage(t)
              => isLoading' /\ chats' # chats ]_vars
    /\ (isLoading ~> ~isLoading)

\* a failed send has settled and the flag is down
C4_Witness ==
    /\ ~isLoading /\ chats = {}
    /\ Len(messages) >= 3 /\ messages[Len(messages)].intent = "Error"

\* C5 as stated: a failed chat request sets the connectivity-error status,
\* appends exactly one assistant entry with intent Error and the fixed
\* apology, and the optimistic user entry of that send is still in the
\* transcript.
C5_FailureKeepsUserEntry ==
    [][ \A c \in chats, o \in ChatOutcomes :
           ChatSettle(c, o) /\ o.status # "ok"
           => /\ statusMessage' = StatusSendError
              /\ Len(messages') = Len(messages) + 1
              /\ SubSeq(messages', 1, Len(messages)) = messages
              /\ messages'[Len(messages')].role = "assistant"
              /\ messages'[Len(messages')].intent = "Error"
              /\ messages'[Len(messages')].content = FallbackContent
              /\ InTranscript(messages', c.user) ]_vars

\* C5 amended: the failure handling removes no entry, and the optimistic
\* user entry is still there, right before the apology, when the refresh
\* epoch did not change while the request was outstanding.
C5_FailureRemovesNothing ==
    [][ \A c \in chats, o \in ChatOutcomes :
           ChatSettle(c, o) /\ o.status # "ok"
           => /\ statusMessage' = StatusSendError
              /\ Len(messages') = Len(messages) + 1
              /\ SubSeq(messages', 1, Len(messages)) = messages
              /\ messages'[Len(messages')].role = "assistant"
              /\ messages'[Len(messages')].intent = "Error"
              /\ messages'[Len(messages')].content = FallbackContent
              /\ c.epoch = refreshKey
                 => messages'[Len(messages)].id = c.user ]_vars

\* a failed send has settled: the status, the apology and, before it, the
\* user entry
C5_Witness ==
    /\ statusMessage = StatusSendError /\ chats = {}
    /\ Len(messages) >= 3
    /\ messages[Len(messages)].content = FallbackContent
    /\ messages[Len(messages) - 1].role = "user"

\* C6: when the refresh epoch changes the transcript becomes the welcome
\* entry alone, and the reply of a send started under an earlier epoch does
\* not enter the transcript of the later epoch.
C6_NoResidualMessage ==
    [][ /\ refreshKey' # refreshKey => messages' = << INITIAL_ASSISTANT_MESSAGE >>
        /\ \A c \in chats, o \in ChatOutcomes :
              ChatSettle(c, o) /\ c.epoch # refreshKey
              => ~InTranscript(messages', ReplyMessage(o, nextId).id) ]_vars

\* C7: after a change of the refresh epoch the mode flag is off.
C7_RagOffAfterRefresh ==
    [][ refreshKey' # refreshKey => ~isRagEnabled' ]_vars

\* C8: the result of a list fetch issued under an earlier refresh epoch is
\* not applied to the registry once a later epoch has begun; in particular
\* when it arrives after the later epoch's own fetch has settled, the
\* registry keeps what it held.
C8_StaleFetchNotApplied ==
    [][ \A f \in fetches, form \in ListFormsOk :
           /\ FetchSettle(f, form)
           /\ f.epoch < refreshKey
           /\ \A g \in fetches : g.epoch # refreshKey
           => documents' = documents ]_vars

\* C9: a running batch has exactly one upload request outstanding, for the
\* file that follows the ones that settled successfully, in file-list
\* order; a batch that met a failure has none.
C9_SequentialUploads ==
    /\ \A b \in batches :
          LET mine == { u \in uploads : u.bid = b.bid }
          IN /\ Cardinality(mine) = 1
             /\ \A u \in mine : /\ u.idx = Len(b.uploaded) + 1
                                /\ u.idx <= Len(b.files)
                                /\ u.file = b.files[u.idx]
    /\ \A u \in uploads : \E b \in batches : b.bid = u.bid

\* the second file of a batch is being uploaded after the first succeeded
C9_Witness ==
    \E b \in batches, u \in uploads :
        u.bid = b.bid /\ u.idx = 2 /\ Len(b.uploaded) = 1

\* C10: when a batch ends on a rejected file after at least one success,
\* the registry holds the Documents of the files that succeeded and
\* statusMessage is the upload-failure string.
C10_PartialBatchReportsFailure ==
    [][ \A b \in batches, u \in uploads, o \in UploadOutcomes :
           UploadSettle(b, u, o) /\ o # "ok" /\ Len(b.uploaded) > 0
           => /\ \A i \in 1..Len(b.uploaded) :
                    \E j \in 1..Len(documents') : documents'[j] = b.uploaded[i]
              /\ statusMessage' = StatusUploadFailed ]_vars

\* C11: an upload batch without a successful file, an empty file list or a
\* first file that fails, leaves the registry, the refresh epoch and the
\* transcript as they were; when a file failed, statusMessage is the
\* upload-failure string and nothing else is changed or issued.
C11_EmptyBatchChangesNothing ==
    [][ /\ handleUploadDocuments(<<>>) => UNCHANGED vars
        /\ \A b \in batches, u \in uploads, o \in UploadOutcomes :
              UploadSettle(b, u, o) /\ o # "ok" /\ b.uploaded = <<>>
              => /\ UNCHANGED << documents, refreshKey, messages, isRagEnabled,
                                 isLoading, fetches, chats, deletes >>
                 /\ statusMessage' = StatusUploadFailed
                 /\ uploads' = uploads \ { u } ]_vars

\* a batch has ended on the failure of its first file: nothing but the
\* status shows it
C11_Witness ==
    /\ statusMessage = StatusUploadFailed /\ batches = {} /\ uploads = {}
    /\ refreshKey = 0 /\ intents = 1
    /\ messages = << INITIAL_ASSISTANT_MESSAGE >>

\* the list requests a step issues
IssuedFetches == { g \in fetches' : g.resp = Pending } \ fetches

\* C12: a batch that ends with at least one successful file puts its
\* Documents, in upload order, in front of the registry of that moment and
\* raises the refresh epoch by one, once for the batch; a step raises the
\* epoch only so, never lowers it, and issues one list request when it
\* raises the epoch and none otherwise.
C12_CommitPrependsAndBumpsOnce ==
    [][ /\ \A b \in batches, u \in uploads, o \in UploadOutcomes :
              UploadSettle(b, u, o)
              => LET uploaded == IF o = "ok"
                                 THEN Append(b.uploaded,
                                        normaliseDocument(u.resp.data, nextId, clock)[1])
                                 ELSE b.uploaded
                     ends == \A c \in batches' : c.bid # b.bid
                 IN IF ends /\ uploaded # <<>>
                    THEN /\ documents' = uploaded \o documents
                         /\ refreshKey' = refreshKey + 1
                    ELSE UNCHANGED << documents, refreshKey >>
        /\ refreshKey' >= refreshKey
        /\ refreshKey' # refreshKey
           => \E b \in batches, u \in uploads, o \in UploadOutcomes :
                 UploadSettle(b, u, o)
        /\ IssuedFetches = IF refreshKey' # refreshKey
                           THEN { FetchRequest(refreshKey') } ELSE {}
        /\ Cardinality(IssuedFetches) = refreshKey' - refreshKey ]_vars

\* a batch of two files has been committed: both Documents lead the
\* registry in upload order, the epoch went up by one and its reload is out
C12_Witness ==
    /\ refreshKey = 1 /\ batches = {}
    /\ Len(documents) >= 2
    /\ documents[1].uploadedAt < documents[2].uploadedAt
    /\ \E g \in fetches : g.epoch = 1

\* C13: when the request of deleteDocument(id), id truthy, returns 204 or
\* another 2xx status, the registry loses exactly the entries whose id is
\* id, the others keep their order, and statusMessage is the delete-success
\* string; with a falsy id nothing changes and no request is issued.
C13_DeleteRemovesMatching ==
    [][ /\ \A d \in deletes, o \in DeleteOutcomes :
              DeleteSettle(d, o) /\ o.ok
              => /\ documents' = SelectSeq(documents, LAMBDA doc : doc.id # d.id)
                 /\ statusMessage' = StatusDeleted
        /\ handleDeleteDocument(<<>>) => UNCHANGED vars ]_vars

\* a delete has succeeded on a registry of two entries: the other one is
\* left
C13_Witness ==
    /\ statusMessage = StatusDeleted /\ deletes = {}
    /\ Len(documents) = 1
    /\ \E i \in 1..Len(server) : ServerIdOf(server[i]) = documents[1].id
    /\ Len(server) = 1

\* C14: when a delete request fails, by a network error or a non-2xx
\* status, the registry stays what it was, statusMessage is the
\* delete-failure string, and no request is issued: no retry, no reload.
C14_DeleteFailureKeepsRegistry ==
    [][ \A d \in deletes, o \in DeleteOutcomes :
           DeleteSettle(d, o) /\ ~o.ok
           => /\ documents' = documents
              /\ statusMessage' = StatusDeleteFailed
              /\ deletes' = deletes \ { d }
              /\ UNCHANGED << fetches, refreshKey, uploads, chats >> ]_vars

\* a delete has failed: the entry is still in the registry
C14_Witness ==
    /\ statusMessage = StatusDeleteFailed /\ deletes = {}
    /\ documents # <<>> /\ intents = 1

\* the forms of a failed list fetch: a rejected fetch or an unparseable
\* body, a non-2xx status, a body that is neither a sequence nor an
\* envelope with a results sequence
ListFormsFailed == ListForms \ ListFormsOk

\* C15: when a list fetch fails, the registry becomes empty, the load ends
\* there without an error, and the transcript, isLoading, the mode flag and
\* statusMessage stay as they were.
C15_FailedLoadClearsRegistry ==
    /\ [][ \A f \in fetches, form \in ListFormsFailed :
              FetchSettle(f, form)
              => /\ documents' = <<>>
                 /\ fetches' = fetches \ { f }
                 /\ UNCHANGED << messages, isLoading, isRagEnabled,
                                 statusMessage, refreshKey >> ]_vars
    /\ [](\A f \in fetches, form \in ListFormsFailed :
              ENABLED FetchSettle(f, form))

\* the reload after an upload has failed: the registry the commit had
\* filled is empty, and the upload's status is still shown
C15_Witness ==
    /\ documents = <<>> /\ fetches = {}
    /\ refreshKey = 1 /\ intents = 1 /\ batches = {}
    /\ statusMessage = StatusUploadDone

\* C16: no two entries of the registry have the same id.
C16_NoDuplicateIds ==
    \A i, j \in 1..Len(documents) :
        documents[i].id = documents[j].id => i = j

\* C17: the registry is ordered by descending uploadedAt.
C17_RegistryDescending ==
    \A i, j \in 1..Len(documents) :
        i < j => documents[i].uploadedAt >= documents[j].uploadedAt

\* how many entries of a sequence equal x
RECURSIVE Occurrences(_, _)
Occurrences(seq, x) ==
    IF seq = <<>> THEN 0
    ELSE (IF Head(seq) = x THEN 1 ELSE 0) + Occurrences(Tail(seq), x)

\* the Documents of the records of a collection, one by one, in its order
NormalisedOf(coll, now) ==
    [ i \in 1..Len(coll) |-> normaliseDocument(coll[i], 0, now)[1] ]

\* C18: after a successful load, of a bare sequence or of a results
\* envelope, the registry holds the normalised records of the response and
\* nothing else, each as often as the response has it, in descending
\* uploadedAt order, whatever it held before.
C18_LoadReplacesWholesale ==
    [][ \A f \in fetches, form \in { "envelope", "array" } :
           FetchSettle(f, form)
           => LET expected == NormalisedOf(f.resp.coll, clock)
              IN /\ Len(documents') = Len(expected)
                 /\ \A i \in 1..Len(expected) :
                       Occurrences(documents', expected[i])
                           = Occurrences(expected, expected[i])
                 /\ \A i, j \in 1..Len(documents') :
                       i < j => documents'[i].uploadedAt
                                    >= documents'[j].uploadedAt ]_vars

\* a load of two records has settled on a registry that held other
\* content: the newer record is first
C18_Witness ==
    /\ fetches = {} /\ refreshKey = 1 /\ Len(server) = 2
    /\ Len(documents) = 2
    /\ documents[1].id = ServerIdOf(server[2])
    /\ documents[2].id = ServerIdOf(server[1])

\* C19: a null entry, or an entry that is unparseable otherwise, of a list
\* response is dropped and the load goes on: the registry then holds the
\* normalisation of every valid record of the response, and nothing for
\* the malformed entry.
C19_MalformedDropped ==
    [][ \A f \in fetches, form \in { "withNull", "withScalar" } :
           FetchSettle(f, form)
           => LET expected == NormalisedOf(f.resp.coll, clock)
              IN /\ Len(documents') = Len(expected)
                 /\ \A i \in 1..Len(expected) :
                       Occurrences(documents', expected[i])
                           = Occurrences(expected, expected[i]) ]_vars

\* C20: normalising the Document that normalising a record gave yields that
\* Document again: same id, name, size, type, uploadedAt and path.
C20_NormaliseIdempotent ==
    \A i \in 1..Len(server) :
        LET doc == normaliseDocument(server[i], nextId, clock)[1]
        IN normaliseDocument(DocAsRecord(doc), nextId, clock) = << doc >>

\* C21: within a refresh epoch the transcript only grows at its end: a step
\* that changes messages and is not the epoch reset appends exactly one
\* entry and leaves the entries before it, their order and their roles as
\* they were.
C21_AppendOnlyWithinEpoch ==
    [][ messages' # messages /\ refreshKey' = refreshKey
        => /\ Len(messages') = Len(messages) + 1
           /\ \A i \in 1..Len(messages) : messages'[i] = messages[i] ]_vars

\* a send has been answered after a refresh: the transcript of the new
\* epoch has grown by a user entry and a reply
C21_Witness ==
    /\ refreshKey = 1 /\ chats = {}
    /\ Len(messages) = 3
    /\ messages[1] = INITIAL_ASSISTANT_MESSAGE
    /\ messages[2].role = "user" /\ messages[3].role = "assistant"

\* C22: the mode of a chat request is "rag" exactly when the mode flag was
\* on when sendMessage was invoked, and "direct" otherwise; toggling the
\* flag leaves the requests in flight and the transcript as they are, and a
\* request in flight is never rewritten.
C22_ModeReadAtSend ==
    [][ /\ \A t \in Texts :
              SendAccepted(Trim(t)) /\ handleSendMessage(t)
              => /\ Cardinality(chats' \ chats) = 1
                 /\ \A c \in chats' \ chats :
                       c.mode = IF isRagEnabled THEN "rag" ELSE "direct"
        /\ isRagEnabled' # isRagEnabled => UNCHANGED << chats, messages >>
        /\ \A c \in chats' : c \in chats \/ chats = {} ]_vars

\* the flag was switched off while a request sent in rag mode is in flight
C22_Witness ==
    /\ ~isRagEnabled
    /\ \E c \in chats : c.mode = "rag"

\* C23: the history of a chat request is the transcript as it stands right
\* after the optimistic append, entry by entry in its order, each reduced
\* to its role and content: it ends with the user entry just appended and
\* has every earlier entry, the welcome entry included, once.
C23_HistoryIsTranscript ==
    [][ \A t \in Texts :
           SendAccepted(Trim(t)) /\ handleSendMessage(t)
           => \A c \in chats' \ chats :
                 /\ c.history = [ i \in 1..Len(messages') |->
                                    [ role |-> messages'[i].role,
                                      content |-> messages'[i].content ] ]
                 /\ c.history[Len(c.history)] =
                        [ role |-> "user", content |-> Trim(t) ]
                 /\ c.history[1].content = INITIAL_ASSISTANT_MESSAGE.content ]_vars

\* a second send is in flight: its history has the welcome entry, the first
\* exchange and the new user entry
C23_Witness ==
    \E c \in chats :
        /\ Len(c.history) = 4
        /\ c.history[2].role = "user" /\ c.history[3].role = "assistant"
        /\ c.history[4].role = "user"

\* C24: no step of a send, the optimistic append with its request or the
\* reconciliation of a reply or of a failure, changes the registry, the
\* refresh epoch or the mode flag.
C24_SendLeavesRegistry ==
    [][ (\/ \E t \in Texts : handleSendMessage(t)
         \/ \E c \in chats, o \in ChatOutcomes : ChatSettle(c, o))
        => UNCHANGED << documents, refreshKey, isRagEnabled, fetches,
                        uploads, deletes >> ]_vars

\* a send has been answered in rag mode on a loaded registry, which is
\* still there
C24_Witness ==
    /\ chats = {} /\ Len(messages) >= 3
    /\ messages[Len(messages)].intent = "RAG"
    /\ documents # <<>> /\ isRagEnabled

\* C25: isLoading is true exactly when a chat request is outstanding, also
\* when the refresh epoch was reset while the send was in flight.
C25_LoadingIffOutstanding ==
    isLoading <=> chats # {}

\* the refresh epoch was reset while a send is in flight: the flag is still
\* up
C25_Witness ==
    /\ isLoading /\ refreshKey = 1
    /\ \E c \in chats : c.epoch = 0
    /\ messages = << INITIAL_ASSISTANT_MESSAGE >>

\* C26: every assistant entry of the transcript other than the leading
\* welcome entry comes right after a user entry.
C26_AssistantFollowsUser ==
    \A i \in 2..Len(messages) :
        messages[i].role = "assistant" => messages[i - 1].role = "user"

\* the ids of the registry, and of the backend's collection
RegistryIds == { documents[i].id : i \in 1..Len(documents) }
ServerIds == { ServerIdOf(server[i]) : i \in 1..Len(server) }

\* no request is outstanding: a send, a non-empty upload or a delete of the
\* user would leave one
Quiet ==
    chats = {} /\ fetches = {} /\ batches = {} /\ uploads = {} /\ deletes = {}

\* C27: when every request settles successfully and the user issues no
\* further intent (no request stays outstanding, the switch stays as it
\* is), then after a successful upload batch or a successful delete the
\* registry comes to hold, and keeps, the ids of the backend's collection,
\* in whatever order the responses arrive.
C27_RegistryConverges ==
    ( /\ <>[]Quiet
      /\ (<>[]isRagEnabled \/ <>[](~isRagEnabled))
      /\ <>(refreshKey > 0 \/ statusMessage = StatusDeleted) )
        => <>[](RegistryIds = ServerIds)

====
